---- MODULE Spec2Model ----
(***************************************************************************)
(* Model of saba_core/src/url.rs: the Url value and its parse() operation. *)
(* A Rust String is modelled as a sequence of one-character strings, so    *)
(* that contains / trim_start_matches / find / split / splitn are computed *)
(* character by character as the standard library computes them.           *)
(***************************************************************************)
EXTENDS Naturals, Sequences, FiniteSets

(* ---------------------------- bounds ----------------------------------- *)
\* raw texts are concatenations of at most MaxTokens tokens
MaxTokens == 4
\* number of parse() calls made on one instance
MaxCalls == 3

(* ---------------------------- literals --------------------------------- *)
\* the literal "http://" of is_http and url_parts
HTTP == <<"h", "t", "t", "p", ":", "/", "/">>
\* the scheme of tests::test_unsupported_scheme
HTTPS == <<"h", "t", "t", "p", "s", ":", "/", "/">>
\* the default port literal "80" of extract_port
DefaultPort == <<"8", "0">>
\* the error text returned by parse
ErrMsg == "Only HTTP is supported."
\* String::new()
Empty == <<>>

\* building blocks of the raw texts given to Url::new
Tokens == {HTTP, HTTPS, <<"a">>, <<":">>, <<"/">>, <<"?">>}

RECURSIVE Concat(_)
Concat(ts) == IF ts = <<>> THEN <<>> ELSE Head(ts) \o Concat(Tail(ts))

RawTexts == {Concat(ts) : ts \in UNION {[1..n -> Tokens] : n \in 0..MaxTokens}}

(* ------------------------ std string functions ------------------------- *)
\* str::starts_with
starts_with(s, p) == Len(p) <= Len(s) /\ SubSeq(s, 1, Len(p)) = p

\* str::contains with a string pattern
contains(s, p) == \E i \in 1..(Len(s) + 1) : starts_with(SubSeq(s, i, Len(s)), p)

\* str::trim_start_matches: removes the prefix REPEATEDLY while it matches
RECURSIVE trim_start_matches(_, _)
trim_start_matches(s, p) ==
    IF p # <<>> /\ starts_with(s, p)
    THEN trim_start_matches(SubSeq(s, Len(p) + 1, Len(s)), p)
    ELSE s

\* str::find with a char pattern: 1-based index of the first match, 0 for None
find(s, c) ==
    IF \E i \in 1..Len(s) : s[i] = c
    THEN CHOOSE i \in 1..Len(s) : s[i] = c /\ \A j \in 1..(i - 1) : s[j] # c
    ELSE 0

\* str::split with a char pattern, collected: all the pieces
RECURSIVE split(_, _)
split(s, c) ==
    LET i == find(s, c)
    IN  IF i = 0 THEN <<s>>
        ELSE <<SubSeq(s, 1, i - 1)>> \o split(SubSeq(s, i + 1, Len(s)), c)

\* str::splitn with a char pattern, collected: at most n pieces
RECURSIVE splitn(_, _, _)
splitn(s, n, c) ==
    LET i == find(s, c)
    IN  IF n = 0 THEN <<>>
        ELSE IF n = 1 \/ i = 0 THEN <<s>>
        ELSE <<SubSeq(s, 1, i - 1)>> \o splitn(SubSeq(s, i + 1, Len(s)), n - 1, c)

(* ------------------------------ url.rs --------------------------------- *)
\* mutant: the scheme is never stripped
url_parts_nostrip(full_url) == splitn(full_url, 2, "/")

\* mutant: the first "http://" is removed wherever it occurs
url_parts_remove_anywhere(full_url) ==
    IF contains(full_url, HTTP)
    THEN LET i == CHOOSE k \in 1..(Len(full_url) + 1) :
                      /\ starts_with(SubSeq(full_url, k, Len(full_url)), HTTP)
                      /\ \A j \in 1..(k - 1) :
                            ~starts_with(SubSeq(full_url, j, Len(full_url)), HTTP)
         IN  splitn(SubSeq(full_url, 1, i - 1)
                      \o SubSeq(full_url, i + Len(HTTP), Len(full_url)), 2, "/")
    ELSE splitn(full_url, 2, "/")

\* fn url_parts: strip the scheme, split into authority and path-and-query
url_parts(full_url) == splitn(trim_start_matches(full_url, HTTP), 2, "/")

\* mutant: a prefix check instead of a containment check
is_http_prefix(u) == starts_with(u, HTTP)

\* fn is_http
is_http(u) == contains(u, HTTP)

\* mutant: the port is not removed from the host
extract_host_keeps_port(u) == url_parts(u)[1]

\* fn extract_host
extract_host(u) ==
    LET first_part == url_parts(u)[1]
        index == find(first_part, ":")
    IN  IF index # 0 THEN SubSeq(first_part, 1, index - 1) ELSE first_part

\* mutant: no default port
extract_port_nodefault(u) ==
    LET first_part == url_parts(u)[1]
        index == find(first_part, ":")
    IN  IF index # 0 THEN SubSeq(first_part, index + 1, Len(first_part)) ELSE Empty

\* mutant: the port starts after the last ':' instead of the first
extract_port_rfind(u) ==
    LET first_part == url_parts(u)[1]
        index == IF find(first_part, ":") = 0 THEN 0
                 ELSE CHOOSE i \in 1..Len(first_part) :
                          /\ first_part[i] = ":"
                          /\ \A j \in (i + 1)..Len(first_part) : first_part[j] # ":"
    IN  IF index # 0 THEN SubSeq(first_part, index + 1, Len(first_part))
        ELSE DefaultPort

\* fn extract_port
extract_port(u) ==
    LET first_part == url_parts(u)[1]
        index == find(first_part, ":")
    IN  IF index # 0 THEN SubSeq(first_part, index + 1, Len(first_part))
        ELSE DefaultPort

\* fn extract_path
extract_path(u) ==
    LET parts == url_parts(u)
    IN  IF Len(parts) < 2 THEN Empty ELSE split(parts[2], "?")[1]

\* mutant: split instead of splitn(2): the text after a second '?' is dropped
extract_searchpart_split(u) ==
    LET parts == url_parts(u)
    IN  IF Len(parts) < 2 THEN Empty
        ELSE LET path_and_searchpart == split(parts[2], "?")
             IN  IF Len(path_and_searchpart) < 2 THEN Empty
                 ELSE path_and_searchpart[2]

\* fn extract_searchpart
extract_searchpart(u) ==
    LET parts == url_parts(u)
    IN  IF Len(parts) < 2 THEN Empty
        ELSE LET path_and_searchpart == splitn(parts[2], 2, "?")
             IN  IF Len(path_and_searchpart) < 2 THEN Empty
                 ELSE path_and_searchpart[2]

(* ------------------------------ state ---------------------------------- *)
\* the fields of struct Url, the value returned by the last parse() call
\* ("None" before the first call, "Ok", or the error text) and the number of
\* parse() calls made so far
VARIABLES url, host, port, path, searchpart, result, calls

vars == <<url, host, port, path, searchpart, result, calls>>

\* Url::new(raw) for any raw text
Init ==
    /\ url \in RawTexts
    /\ host = Empty
    /\ port = Empty
    /\ path = Empty
    /\ searchpart = Empty
    /\ result = "None"
    /\ calls = 0

\* mutant: the host is extracted before the scheme check
ParseErr_sets_host ==
    /\ calls < MaxCalls
    /\ ~is_http(url)
    /\ host' = extract_host(url)
    /\ result' = ErrMsg
    /\ calls' = calls + 1
    /\ UNCHANGED <<url, port, path, searchpart>>

\* parse(), the early return: Err("Only HTTP is supported.")
ParseErr ==
    /\ calls < MaxCalls
    /\ ~is_http(url)
    /\ result' = ErrMsg
    /\ calls' = calls + 1
    /\ UNCHANGED <<url, host, port, path, searchpart>>

\* mutant: parse() stores the scheme-stripped text back into url
ParseOk_consumes_scheme ==
    /\ calls < MaxCalls
    /\ is_http(url)
    /\ host' = extract_host(url)
    /\ port' = extract_port(url)
    /\ path' = extract_path(url)
    /\ searchpart' = extract_searchpart(url)
    /\ url' = trim_start_matches(url, HTTP)
    /\ result' = "Ok"
    /\ calls' = calls + 1

\* parse(), the success path: Ok(self)
ParseOk ==
    /\ calls < MaxCalls
    /\ is_http(url)
    /\ host' = extract_host(url)
    /\ port' = extract_port(url)
    /\ path' = extract_path(url)
    /\ searchpart' = extract_searchpart(url)
    /\ result' = "Ok"
    /\ calls' = calls + 1
    /\ UNCHANGED url

Next == ParseOk \/ ParseErr

Spec == Init /\ [][Next]_vars

TypeOK ==
    /\ url \in RawTexts
    /\ result \in {"None", "Ok", ErrMsg}
    /\ calls \in 0..MaxCalls
    /\ (calls = 0) <=> (result = "None")

(* -------------------- vocabulary of the properties --------------------- *)
\* c occurs in s
Has(s, c) == \E i \in 1..Len(s) : s[i] = c

\* p occurs in s as a contiguous substring
Occurs(p, s) == \E i \in 0..(Len(s) - Len(p)) : \A k \in 1..Len(p) : s[i + k] = p[k]

\* the text of s before its first c (all of s when c does not occur)
Before(s, c) ==
    LET n == CHOOSE k \in 0..Len(s) :
                 /\ \A j \in 1..k : s[j] # c
                 /\ (k = Len(s) \/ s[k + 1] = c)
    IN  [j \in 1..n |-> s[j]]

\* the text of s after its first c (empty when c does not occur)
After(s, c) ==
    LET n == Len(Before(s, c))
    IN  IF n = Len(s) THEN <<>> ELSE [j \in 1..(Len(s) - n - 1) |-> s[n + 1 + j]]

\* s without its first Len(HTTP) characters
DropScheme(s) == [j \in 1..(Len(s) - Len(HTTP)) |-> s[Len(HTTP) + j]]

\* the four fields as the extraction rules derive them from a remainder rem
FieldsFrom(rem) ==
    LET authority == Before(rem, "/")
    IN  /\ host = Before(authority, ":")
        /\ port = (IF Has(authority, ":") THEN After(authority, ":") ELSE DefaultPort)
        /\ path = (IF Has(rem, "/") THEN Before(After(rem, "/"), "?") ELSE <<>>)
        /\ searchpart = (IF Has(rem, "/") THEN After(After(rem, "/"), "?") ELSE <<>>)

(* ------------------------------ claims --------------------------------- *)
\* C1: parse() returns the error "Only HTTP is supported." exactly when the
\* raw text does not contain "http://" at any position, and succeeds exactly
\* when it contains it somewhere.
C1_ErrorIffNoHttp ==
    calls > 0 =>
        /\ (result = ErrMsg <=> ~Occurs(HTTP, url))
        /\ (result = "Ok" <=> Occurs(HTTP, url))

\* C1 witness: parse() was called on "https://a" and failed
C1_Witness == result = ErrMsg /\ url = HTTPS \o <<"a">>

\* C2: a parse() call that returns the error leaves url, host, port, path and
\* searchpart as they were before the call, and the four fields are all empty
\* after it.
C2_FailureAtomic ==
    [][result' = ErrMsg =>
          /\ url' = url /\ host' = host /\ port' = port
          /\ path' = path /\ searchpart' = searchpart
          /\ host' = <<>> /\ port' = <<>> /\ path' = <<>> /\ searchpart' = <<>>]_vars

\* C2 witness: two failed calls were made on a text without "http://"
C2_Witness == result = ErrMsg /\ calls >= 2 /\ url = <<"a", ":", "/", "?">>

\* C3 as stated: after a successful parse() the port is never empty.
C3_PortNeverEmpty == result = "Ok" => port # <<>>

\* C3 amended: after a successful parse() the port is "80" when the authority
\* has no ':', and it is empty only when nothing follows the first ':' of the
\* authority.
C3_PortEmptyOnlyAfterBareColon ==
    result = "Ok" =>
        LET authority == Before(trim_start_matches(url, HTTP), "/")
        IN  /\ ~Has(authority, ":") => port = DefaultPort
            /\ port = <<>> <=> (Has(authority, ":") /\ After(authority, ":") = <<>>)

\* C3 witness: "http://a:" was parsed and the port is empty
C3_Witness == result = "Ok" /\ url = HTTP \o <<"a", ":">> /\ port = <<>>

\* C4 as stated: for a raw text that begins with "http://" the fields are
\* derived from the raw text with exactly one leading "http://" removed.
C4_StripsOnlyFirst ==
    (result = "Ok" /\ starts_with(url, HTTP)) => FieldsFrom(DropScheme(url))

\* C5: after a successful parse(), host is the authority before its first ':'
\* and port the text after that ':', or host is the whole authority and port
\* is "80" when the authority has no ':'.
C5_HostPortSplit ==
    result = "Ok" =>
        LET authority == Before(trim_start_matches(url, HTTP), "/")
        IN  IF Has(authority, ":")
            THEN host = Before(authority, ":") /\ port = After(authority, ":")
            ELSE host = authority /\ port = DefaultPort

\* C5 witness: "http://a::" was parsed, the port holds the second ':'
C5_Witness ==
    result = "Ok" /\ url = HTTP \o <<"a", ":", ":">> /\ host = <<"a">> /\ port = <<":">>

\* C6: after a successful parse(), path and searchpart are empty when the
\* remainder has no '/'; otherwise path is the text after the first '/' up to
\* its first '?' and searchpart everything after that '?'.
C6_PathSearchSplit ==
    result = "Ok" =>
        LET rem == trim_start_matches(url, HTTP)
            part1 == After(rem, "/")
        IN  IF ~Has(rem, "/")
            THEN path = <<>> /\ searchpart = <<>>
            ELSE /\ path = Before(part1, "?")
                 /\ searchpart = (IF Has(part1, "?") THEN After(part1, "?") ELSE <<>>)

\* C6 witness: a text beginning with "http://" was parsed into a searchpart
\* that keeps a later ?
C6_Witness == result = "Ok" /\ starts_with(url, HTTP) /\ Has(searchpart, "?")

\* C7: parse() never changes the raw text, and every call after the first
\* returns the same outcome and leaves the four fields as the first call did.
C7_Idempotent ==
    [][/\ url' = url
       /\ calls >= 1 =>
            /\ result' = result /\ host' = host /\ port' = port
            /\ path' = path /\ searchpart' = searchpart]_vars

\* C7 witness: a text with a path was parsed successfully at least twice
C7_Witness == result = "Ok" /\ calls >= 2 /\ path # <<>>

\* C8: for "http://" followed by T without ':', '/' and '?', parse() succeeds
\* with host = T, port = "80", path = "" and searchpart = "".
C8_PlainHost ==
    (calls > 0 /\ starts_with(url, HTTP)
       /\ ~Has(DropScheme(url), ":") /\ ~Has(DropScheme(url), "/")
       /\ ~Has(DropScheme(url), "?"))
    => /\ result = "Ok"
       /\ host = DropScheme(url) /\ port = DefaultPort
       /\ path = <<>> /\ searchpart = <<>>

\* C8 witness: "http://aa" was parsed
C8_Witness == result = "Ok" /\ url = HTTP \o <<"a", "a">> /\ host = <<"a", "a">>

\* C9: for a raw text that contains "http://" without beginning with it,
\* parse() succeeds and the fields are derived from the whole raw text.
C9_UnstrippedWhenNotPrefix ==
    (calls > 0 /\ Occurs(HTTP, url) /\ ~starts_with(url, HTTP))
    => result = "Ok" /\ FieldsFrom(url)

\* C9 witness: "ahttp://a" was parsed into host "ahttp", port "", path "/a"
C9_Witness ==
    /\ result = "Ok" /\ url = <<"a">> \o HTTP \o <<"a">>
    /\ host = <<"a", "h", "t", "t", "p">> /\ port = <<>>
    /\ path = <<"/", "a">> /\ searchpart = <<>>

\* C10: in every reachable state host contains neither ':' nor '/', port
\* contains no '/', and path contains no '?'.
C10_DelimiterExclusion ==
    /\ ~Has(host, ":") /\ ~Has(host, "/")
    /\ ~Has(port, "/")
    /\ ~Has(path, "?")

\* C10 witness: a parsed state whose non-empty host came with a searchpart
\* that holds a '?'
C10_Witness == result = "Ok" /\ host # <<>> /\ path # <<>> /\ Has(searchpart, "?")

====
